---- MODULE Spec2Model ----
(***************************************************************************)
(* Model of the order-extraction application (src/app.py, src/models.py):  *)
(* the field extractors, build_order_model, process_uploaded_pdfs and the  *)
(* Streamlit script main() with its session state.                         *)
(*                                                                         *)
(* Python values are records tagged by t, the Python type: "str" with the   *)
(* characters v, "none", "int" with the number n, "list" with its items,   *)
(* and "raise", with the exception's name exc, for a call that raised.     *)
(***************************************************************************)
EXTENDS Integers, Sequences, FiniteSets, TLC

VARIABLES
    call,           \* extractor under test: [fn, a, b], the function and its arguments
    result,         \* the value the call returned (or raised); Pending before it ran
    extracted_dict, \* the layout tree build_order_model is called on
    built,          \* what build_order_model(extracted_dict) returned (or raised)
    uploaded_files, \* the files held by the file uploader widget
    run,            \* the last process_uploaded_pdfs call: its new_orders and its messages
    extracted_orders, \* st.session_state.extracted_orders
    page,           \* the page selected in the sidebar
    trigger,        \* what caused the last script run
    rerun_requested, \* st.rerun() was called: the script runs again at once
    uploads         \* how many times each file was handed to the uploader

extractVars == <<call, result>>
buildVars == <<extracted_dict, built>>
sessionVars == <<extracted_orders, page, trigger, rerun_requested, uploads>>
vars == <<call, result, extracted_dict, built, uploaded_files, run,
          extracted_orders, page, trigger, rerun_requested, uploads>>

\* ------------------------------------------------------------ Python values

PyStr(s) == [t |-> "str", v |-> s]
PyNone == [t |-> "none"]
\* A value that is neither None nor a str (a number such as 5).
PyInt == [t |-> "int", n |-> 5]
PyList(xs) == [t |-> "list", items |-> xs]
\* The call did not return: exception e propagated out of it.
Raised(e) == [t |-> "raise", exc |-> e]

\* No value yet: the call has not run.
Pending == [t |-> "pending"]

IsStr(x) == x.t = "str"
IsRaised(x) == x.t = "raise"

\* A cell of a grid row or a text node: a dict with a "text" key, a dict
\* without one, or something that is not a dict.
Cell(text) == [kind |-> "dict", text |-> text]
CellNoText == [kind |-> "dict_no_text", text |-> PyNone]
NonDict == [kind |-> "nondict", text |-> PyNone]

\* ------------------------------------------------------------ str methods

\* str.isspace() of one character.
IsSpace(c) == c \in {" ", "\n", "\t"}

RECURSIVE LStrip(_)
LStrip(s) ==
    IF s = <<>> THEN <<>>
    ELSE IF IsSpace(Head(s)) THEN LStrip(Tail(s)) ELSE s

RECURSIVE RStrip(_)
RStrip(s) ==
    IF s = <<>> THEN <<>>
    ELSE IF IsSpace(s[Len(s)]) THEN RStrip(SubSeq(s, 1, Len(s) - 1)) ELSE s

\* str.strip()
Strip(s) == LStrip(RStrip(s))

RECURSIVE TakeWord(_)
TakeWord(s) ==
    IF s = <<>> \/ IsSpace(Head(s)) THEN <<>>
    ELSE <<Head(s)>> \o TakeWord(Tail(s))

\* text.split()[0], for a text with a non-whitespace character.
FirstWordOf(s) == TakeWord(LStrip(s))

\* A character is a string naming one code point: itself for ASCII, "sz" for
\* U+00DF (the sharp s), "i'", "o'", "e'" for the acute-accented vowels.
\* str.upper() of one character, as a string: the full Unicode upper-case
\* mapping, which maps some characters to two (the sharp s to "SS").
UpperMap ==
    ("a" :> <<"A">>) @@ ("b" :> <<"B">>) @@ ("c" :> <<"C">>) @@ ("d" :> <<"D">>)
    @@ ("e" :> <<"E">>) @@ ("f" :> <<"F">>) @@ ("g" :> <<"G">>) @@ ("h" :> <<"H">>)
    @@ ("i" :> <<"I">>) @@ ("j" :> <<"J">>) @@ ("k" :> <<"K">>) @@ ("l" :> <<"L">>)
    @@ ("m" :> <<"M">>) @@ ("n" :> <<"N">>) @@ ("o" :> <<"O">>) @@ ("p" :> <<"P">>)
    @@ ("q" :> <<"Q">>) @@ ("r" :> <<"R">>) @@ ("s" :> <<"S">>) @@ ("t" :> <<"T">>)
    @@ ("u" :> <<"U">>) @@ ("v" :> <<"V">>) @@ ("w" :> <<"W">>) @@ ("x" :> <<"X">>)
    @@ ("y" :> <<"Y">>) @@ ("z" :> <<"Z">>) @@ ("i'" :> <<"I'">>) @@ ("o'" :> <<"O'">>)
    @@ ("e'" :> <<"E'">>) @@ ("sz" :> <<"S", "S">>)

UpperChar(c) == IF c \in DOMAIN UpperMap THEN UpperMap[c] ELSE <<c>>

RECURSIVE Upper(_)
Upper(s) == IF s = <<>> THEN <<>> ELSE UpperChar(Head(s)) \o Upper(Tail(s))

\* str.startswith
StartsWith(s, p) == Len(p) <= Len(s) /\ SubSeq(s, 1, Len(p)) = p

\* s[n:]
SliceFrom(s, n) == SubSeq(s, n + 1, Len(s))

IsDigit(c) == c \in {"0", "1", "2", "3", "4", "5", "6", "7", "8", "9"}

\* A postal-code test that accepts five digits only.
IsPostalCode_FiveOnly(w) == Len(w) = 5 /\ \A i \in 1..Len(w) : IsDigit(w[i])

\* re.fullmatch(r"\d{4,5}", w)
IsPostalCode(w) == Len(w) \in {4, 5} /\ \A i \in 1..Len(w) : IsDigit(w[i])

\* ------------------------------------------------------------ field extractors

\* A scan that compares the trimmed cell text with the excluded value.
RECURSIVE FirstNonMatching_Trimmed(_, _)
FirstNonMatching_Trimmed(cols, exclude_value) ==
    IF cols = <<>> THEN PyNone
    ELSE LET col == Head(cols) IN
         IF /\ col.kind = "dict"
            /\ IsStr(col.text)
            /\ Strip(col.text.v) # <<>>
            /\ PyStr(Strip(col.text.v)) # exclude_value
         THEN col.text
         ELSE FirstNonMatching_Trimmed(Tail(cols), exclude_value)

RECURSIVE FirstNonMatching(_, _)
FirstNonMatching(cols, exclude_value) ==
    IF cols = <<>> THEN PyNone
    ELSE LET col == Head(cols) IN
         IF /\ col.kind = "dict"
            /\ IsStr(col.text)
            /\ Strip(col.text.v) # <<>>
            /\ col.text # exclude_value
         THEN col.text
         ELSE FirstNonMatching(Tail(cols), exclude_value)

\* Iterating something that is not iterable raises TypeError.
get_first_non_matching_value(columns, exclude_value) ==
    IF columns.t # "list" THEN Raised("TypeError")
    ELSE FirstNonMatching(columns.items, exclude_value)

get_first_word(text) ==
    IF ~IsStr(text) \/ Strip(text.v) = <<>> THEN PyStr(<<>>)
    ELSE LET first_word == FirstWordOf(text.v) IN
         IF IsPostalCode(first_word) THEN PyStr(first_word) ELSE text

\* .strip() of a value that is not a str raises AttributeError.
remove_substring_if_found(substring, main_string) ==
    LET sub == IF substring.t = "none" THEN PyStr(<<>>) ELSE substring IN
    IF main_string.t = "none" THEN PyStr(<<>>)
    ELSE IF ~IsStr(main_string) \/ ~IsStr(sub) THEN Raised("AttributeError")
    ELSE LET m == Strip(main_string.v)
             s == Strip(sub.v)
         IN IF StartsWith(Upper(m), Upper(s))
            THEN PyStr(LStrip(SliceFrom(m, Len(s))))
            ELSE PyStr(m)

\* The texts that concatenate_text_from_index joins, or the exception the
\* generator raises at the first object it cannot handle: '"text" in obj' of a
\* non-container is a TypeError, .strip() of a non-str an AttributeError.
RECURSIVE JoinTexts(_, _)
JoinTexts(objs, acc) ==
    IF objs = <<>> THEN PyStr(acc)
    ELSE LET obj == Head(objs) IN
         IF obj.kind = "nondict" THEN Raised("TypeError")
         ELSE IF obj.kind = "dict_no_text" THEN JoinTexts(Tail(objs), acc)
         ELSE IF ~IsStr(obj.text) THEN Raised("AttributeError")
         ELSE IF Strip(obj.text.v) = <<>> THEN JoinTexts(Tail(objs), acc)
         ELSE JoinTexts(Tail(objs),
                        Append(acc, obj.text.v))

RECURSIVE JoinLines(_)
JoinLines(parts) ==
    IF parts = <<>> THEN <<>>
    ELSE IF Len(parts) = 1 THEN Head(parts)
    ELSE Head(parts) \o <<"\n">> \o JoinLines(Tail(parts))

\* Subscripting None raises TypeError.
concatenate_text_from_index(objects_list, start_index) ==
    IF objects_list.t # "list" THEN Raised("TypeError")
    ELSE LET r == JoinTexts(SliceFrom(objects_list.items, start_index), <<>>) IN
         IF IsRaised(r) THEN r ELSE PyStr(JoinLines(r.v))

\* ------------------------------------------------------------ format_date

\* dateutil.parser.parse(value).strftime("%d/%m/%Y") on the date texts the model
\* uses: an ISO timestamp parses, a text that is no date raises ParserError (a
\* ValueError), a number too large for a C integer raises OverflowError.
IsoDate == <<"2", "0", "2", "4", "-", "0", "7", "-", "3", "1", "T", "1", "0", ":", "0", "0", ":", "0", "0">>
IsoDateFormatted == <<"3", "1", "/", "0", "7", "/", "2", "0", "2", "4">>
NotADate == <<"n", "o", "t", "-", "a", "-", "d", "a", "t", "e">>
HugeNumber == <<"9", "9", "9", "9", "9", "9", "9", "9", "9", "9", "9", "9">>
DateTexts == {IsoDate, NotADate, HugeNumber}

ParseAndFormat(s) ==
    IF s = IsoDate THEN PyStr(IsoDateFormatted)
    ELSE IF s = HugeNumber THEN Raised("OverflowError")
    ELSE Raised("ValueError")

\* "if value" is false for None and for the empty string; parse() of a value that
\* is not a str raises TypeError, which is caught like ValueError.
format_date(value) ==
    IF value.t = "none" \/ value = PyStr(<<>>) THEN value
    ELSE IF ~IsStr(value) THEN value
    ELSE LET r == ParseAndFormat(value.v) IN
         IF IsRaised(r) /\ r.exc \in {"ValueError", "TypeError"} THEN value ELSE r

\* ------------------------------------------------------------ template texts

LabelCarplate == <<"M", "a", "t", "r", "i'", "c", "u", "l", "a", " ", "/", " ", "B", "a", "s", "t", "i", "d", "o", "r", ":">>
LabelMake == <<"M", "a", "r", "c", "a", ":">>
LabelModel == <<"M", "o", "d", "e", "l", "o", ":">>
LabelPickup == <<"P", "u", "n", "t", "o", " ", "d", "e", " ", "R", "e", "c", "o", "g", "i", "d", "a", ":">>
LabelDelivery == <<"P", "u", "n", "t", "o", " ", "d", "e", " ", "E", "n", "t", "r", "e", "g", "a", ":">>
LabelStreet == <<"D", "i", "r", "e", "c", "c", "i", "o'", "n", ":">>
LabelProvince == <<"P", "r", "o", "v", "i", "n", "c", "i", "a", ":">>
LabelPostalCode == <<"C", "o'", "d", "i", "g", "o", " ", "P", "o", "s", "t", "a", "l", ":">>
LabelContact == <<"P", "e", "r", "s", "o", "n", "a", " ", "d", "e", " ", "C", "o", "n", "t", "a", "c", "t", "o", ":">>
LabelPhone == <<"T", "e", "l", "e'", "f", "o", "n", "o", " ", "d", "e", " ", "C", "o", "n", "t", "a", "c", "t", "o", ":">>
LabelComments == <<"O", "b", "s", "e", "r", "v", "a", "c", "i", "o", "n", "e", "s", ":">>
UNKNOWN == <<"U", "N", "K", "N", "O", "W", "N">>
SEMAT == <<"S", "E", "M", "A", "T">>

\* ------------------------------------------------------------ models.py

ActivityCollection == "Collection"
ActivityDelivery == "Delivery"

IsOptionalStr(x) == x.t \in {"str", "none"}

\* Address: street, province and postal_code are required strings.
ValidAddress(a) ==
    /\ IsOptionalStr(a.address_name) /\ IsOptionalStr(a.city)
    /\ IsStr(a.street) /\ IsStr(a.province) /\ IsStr(a.postal_code)

ValidContact(c) == IsOptionalStr(c.contact_person) /\ IsOptionalStr(c.phone)

ValidVehicle(v) ==
    /\ IsStr(v.license_plate) /\ IsStr(v.make) /\ IsOptionalStr(v.model)
    /\ v.activity \in {ActivityCollection, ActivityDelivery}

\* Header: shipment_id, available_at and delivery_requested_at are declared
\* str; a value passed for them must be a string (None is rejected).
ValidHeader(h) ==
    /\ IsOptionalStr(h.company_name) /\ IsOptionalStr(h.customer_code)
    /\ IsStr(h.shipment_id) /\ IsStr(h.available_at) /\ IsStr(h.delivery_requested_at)
    /\ IsOptionalStr(h.sender_email)
    /\ h.number_of_stops \in Int /\ h.number_of_vehicles \in Int

\* ------------------------------------------------------------ build_order_model

\* What a call of build_order_model ends with: an Order, or an exception.
Built(order) == [t |-> "order", order |-> order]

RECURSIVE TextByRef(_, _)
\* next((item["text"] for item in texts if item.get("self_ref") == ref), None)
TextByRef(texts, ref) ==
    IF texts = <<>> THEN PyNone
    ELSE IF Head(texts).self_ref = ref THEN Head(texts).text
    ELSE TextByRef(Tail(texts), ref)

\* grid[i] of the source (0-based) is grid[i + 1] here.
Row(grid, i) == PyList(grid[i + 1])

\* A stop extraction that takes a missing comments row for absent comments.
ExtractStop_CommentsOptional(grid, name_label) ==
    IF Len(grid) < 6 THEN Raised("IndexError")
    ELSE LET address ==
                 [address_name |-> get_first_non_matching_value(Row(grid, 0), PyStr(name_label)),
                  street |-> get_first_non_matching_value(Row(grid, 2), PyStr(LabelStreet)),
                  city |-> PyNone,
                  province |-> get_first_non_matching_value(Row(grid, 4), PyStr(LabelProvince)),
                  postal_code |-> get_first_word(
                      get_first_non_matching_value(Row(grid, 3), PyStr(LabelPostalCode)))]
             contact ==
                 [contact_person |-> get_first_non_matching_value(Row(grid, 1), PyStr(LabelContact)),
                  phone |-> get_first_non_matching_value(Row(grid, 5), PyStr(LabelPhone))]
         IN IF ~ValidAddress(address) \/ ~ValidContact(contact) THEN Raised("ValidationError")
            ELSE [t |-> "stop",
                  stop |-> [address |-> address,
                            contact |-> contact,
                            comments |-> IF Len(grid) < 7 THEN PyStr(<<>>)
                                         ELSE remove_substring_if_found(
                                                  PyStr(LabelComments),
                                                  get_first_non_matching_value(
                                                      Row(grid, 6), PyStr(LabelComments)))]]

\* The address, contact and comments of one stop from its table (lines 136-149
\* for the origin, 151-164 for the destination), or the exception raised on
\* the way: IndexError for a missing row, ValidationError from Address.
ExtractStop(grid, name_label) ==
    IF Len(grid) < 5 THEN Raised("IndexError")
    ELSE LET address ==
                 [address_name |-> get_first_non_matching_value(Row(grid, 0), PyStr(name_label)),
                  street |-> get_first_non_matching_value(Row(grid, 2), PyStr(LabelStreet)),
                  city |-> PyNone,
                  province |-> get_first_non_matching_value(Row(grid, 4), PyStr(LabelProvince)),
                  postal_code |-> get_first_word(
                      get_first_non_matching_value(Row(grid, 3), PyStr(LabelPostalCode)))]
         IN IF ~ValidAddress(address) THEN Raised("ValidationError")
            ELSE IF Len(grid) < 6 THEN Raised("IndexError")
            ELSE LET contact ==
                         [contact_person |-> get_first_non_matching_value(
                              Row(grid, 1), PyStr(LabelContact)),
                          phone |-> get_first_non_matching_value(
                              Row(grid, 5), PyStr(LabelPhone))]
                 IN IF ~ValidContact(contact) THEN Raised("ValidationError")
                    ELSE IF Len(grid) < 7 THEN Raised("IndexError")
                    ELSE [t |-> "stop",
                          stop |-> [address |-> address,
                                    contact |-> contact,
                                    comments |-> remove_substring_if_found(
                                        PyStr(LabelComments),
                                        get_first_non_matching_value(
                                            Row(grid, 6), PyStr(LabelComments)))]]

\* "x or UNKNOWN": the sentinel for None and for the empty string.
OrUnknown(x) == IF x.t = "none" \/ x = PyStr(<<>>) THEN PyStr(UNKNOWN) ELSE x

\* A vehicle that is given the Collection activity whatever the stop.
MakeVehicle_AlwaysCollection(carplate, make, model, activity) ==
    [license_plate |-> OrUnknown(carplate),
     make |-> OrUnknown(make),
     model |-> model,
     activity |-> ActivityCollection]

MakeVehicle(carplate, make, model, activity) ==
    [license_plate |-> OrUnknown(carplate),
     make |-> OrUnknown(make),
     model |-> model,
     activity |-> activity]

MakeStop(n, part, vehicles) ==
    [stop_number |-> n,
     address |-> part.address,
     contact |-> part.contact,
     vehicles |-> vehicles,
     comments |-> part.comments]

\* Lines 167-200: the vehicles, the stops, the header and the order, given
\* the fields extracted from the three tables.
AssembleOrder(external_id, delivery_requested_at, carplate, make, model, origin, destination, now) ==
    LET vehicles_origin == <<MakeVehicle(carplate, make, model, ActivityCollection)>>
        vehicles_destination == <<MakeVehicle(carplate, make, model, ActivityDelivery)>>
        stops == <<MakeStop(1, origin, vehicles_origin),
                   MakeStop(2, destination, vehicles_destination)>>
        available_at == format_date(now)
        requested == format_date(delivery_requested_at)
        header == [company_name |-> PyStr(SEMAT),
                   customer_code |-> PyNone,
                   shipment_id |-> OrUnknown(external_id),
                   available_at |-> available_at,
                   delivery_requested_at |-> requested,
                   sender_email |-> PyNone,
                   number_of_stops |-> Len(stops),
                   number_of_vehicles |-> Len(vehicles_origin)]
    IN IF ~ValidVehicle(vehicles_origin[1]) \/ ~ValidVehicle(vehicles_destination[1])
       THEN Raised("ValidationError")
       ELSE IF IsRaised(available_at) THEN available_at
       ELSE IF IsRaised(requested) THEN requested
       ELSE IF ~ValidHeader(header) THEN Raised("ValidationError")
       ELSE Built([header |-> header, stops |-> stops])

\* build_order_model(data); now is datetime.now().isoformat().
build_order_model(data, now) ==
    LET external_id == TextByRef(data.texts, "#/texts/5")
        delivery_requested_at == TextByRef(data.texts, "#/texts/6")
    IN IF Len(data.tables) < 1 THEN Raised("IndexError")
       ELSE LET table_0_grid == data.tables[1].grid IN
       IF Len(table_0_grid) < 3 THEN Raised("IndexError")
       ELSE LET carplate == get_first_non_matching_value(Row(table_0_grid, 0), PyStr(LabelCarplate))
                make == remove_substring_if_found(PyStr(LabelMake),
                            get_first_non_matching_value(Row(table_0_grid, 1), PyStr(LabelMake)))
                model_0 == remove_substring_if_found(PyStr(LabelModel),
                            get_first_non_matching_value(Row(table_0_grid, 2), PyStr(LabelModel)))
                model == remove_substring_if_found(make, model_0)
            IN IF Len(data.tables) < 2 THEN Raised("IndexError")
               ELSE LET origin == ExtractStop(data.tables[2].grid, LabelPickup) IN
               IF IsRaised(origin) THEN origin
               ELSE IF Len(data.tables) < 3 THEN Raised("IndexError")
               ELSE LET destination == ExtractStop(data.tables[3].grid, LabelDelivery) IN
               IF IsRaised(destination) THEN destination
               ELSE AssembleOrder(external_id, delivery_requested_at, carplate, make, model,
                                  origin.stop, destination.stop, now)

\* ------------------------------------------------------------ process_uploaded_pdfs

MAX_FILE_SIZE_MB == 25
MAX_FILE_SIZE_BYTES == MAX_FILE_SIZE_MB * 1024 * 1024

\* datetime.now().isoformat(): an ISO timestamp.
Now == PyStr(IsoDate)

\* extract_text_from_file: the converter raises on a document it cannot read,
\* and otherwise returns the exported tree under "dict".
extract_text_from_file(file) ==
    IF file.doc.readable THEN [t |-> "dict", dict |-> file.doc.dict]
    ELSE Raised("ConversionError")

Message(kind, file) == [kind |-> kind, name |-> file.name]

\* What the loop does with a file besides writing messages: "stage" is the
\* copy into a temporary file (lines 213-215), "parse" the call of
\* extract_text_from_file (line 220), "build" the call of build_order_model
\* (line 222).
Invoked(op, file) == [op |-> op, name |-> file.name, size |-> file.size]

\* One pass of the loop body (lines 208-229) for the file at the head, then
\* the rest of the loop. Every exception of the try block is caught: a
\* ValidationError by the first handler, any other by the second.
\* A loop that lets the first exception of a file end the batch.
RECURSIVE ProcessFiles_AbortOnError(_, _, _, _)
ProcessFiles_AbortOnError(files, new_orders, log, calls) ==
    IF files = <<>> THEN [new_orders |-> new_orders, log |-> log, calls |-> calls]
    ELSE LET uploaded_file == Head(files) IN
         IF uploaded_file.size > MAX_FILE_SIZE_BYTES
         THEN ProcessFiles_AbortOnError(Tail(files), new_orders,
                                        Append(log, Message("skipped", uploaded_file)), calls)
         ELSE LET log_1 == Append(log, Message("extracting", uploaded_file))
                  extracted_data == extract_text_from_file(uploaded_file)
                  calls_1 == calls \o <<Invoked("stage", uploaded_file),
                                        Invoked("parse", uploaded_file)>>
                  calls_2 == IF IsRaised(extracted_data) THEN calls_1
                             ELSE Append(calls_1, Invoked("build", uploaded_file))
                  new_order == IF IsRaised(extracted_data) THEN extracted_data
                               ELSE build_order_model(extracted_data.dict, Now)
              IN IF ~IsRaised(new_order)
                 THEN ProcessFiles_AbortOnError(Tail(files),
                                                Append(new_orders, new_order.order), log_1,
                                                calls_2)
                 ELSE [new_orders |-> new_orders,
                       log |-> Append(log_1, Message("error", uploaded_file)),
                       calls |-> calls_2]

\* A loop without the size check of lines 209-211.
RECURSIVE ProcessFiles_NoSizeCheck(_, _, _, _)
ProcessFiles_NoSizeCheck(files, new_orders, log, calls) ==
    IF files = <<>> THEN [new_orders |-> new_orders, log |-> log, calls |-> calls]
    ELSE LET uploaded_file == Head(files)
             log_1 == Append(log, Message("extracting", uploaded_file))
             extracted_data == extract_text_from_file(uploaded_file)
             calls_1 == calls \o <<Invoked("stage", uploaded_file),
                                   Invoked("parse", uploaded_file)>>
             calls_2 == IF IsRaised(extracted_data) THEN calls_1
                        ELSE Append(calls_1, Invoked("build", uploaded_file))
             new_order == IF IsRaised(extracted_data) THEN extracted_data
                          ELSE build_order_model(extracted_data.dict, Now)
         IN IF ~IsRaised(new_order)
            THEN ProcessFiles_NoSizeCheck(Tail(files), Append(new_orders, new_order.order),
                                          log_1, calls_2)
            ELSE IF new_order = Raised("ValidationError")
            THEN ProcessFiles_NoSizeCheck(Tail(files), new_orders,
                                          Append(log_1, Message("validation_error", uploaded_file)),
                                          calls_2)
            ELSE ProcessFiles_NoSizeCheck(Tail(files), new_orders,
                                          Append(log_1, Message("error", uploaded_file)),
                                          calls_2)

RECURSIVE ProcessFiles(_, _, _, _)
ProcessFiles(files, new_orders, log, calls) ==
    IF files = <<>> THEN [new_orders |-> new_orders, log |-> log, calls |-> calls]
    ELSE LET uploaded_file == Head(files) IN
         IF uploaded_file.size > MAX_FILE_SIZE_BYTES
         THEN ProcessFiles(Tail(files), new_orders,
                           Append(log, Message("skipped", uploaded_file)), calls)
         ELSE LET log_1 == Append(log, Message("extracting", uploaded_file))
                  extracted_data == extract_text_from_file(uploaded_file)
                  calls_1 == calls \o <<Invoked("stage", uploaded_file),
                                        Invoked("parse", uploaded_file)>>
                  calls_2 == IF IsRaised(extracted_data) THEN calls_1
                             ELSE Append(calls_1, Invoked("build", uploaded_file))
                  new_order == IF IsRaised(extracted_data) THEN extracted_data
                               ELSE build_order_model(extracted_data.dict, Now)
              IN IF ~IsRaised(new_order)
                 THEN ProcessFiles(Tail(files), Append(new_orders, new_order.order), log_1,
                                   calls_2)
                 ELSE IF new_order = Raised("ValidationError")
                 THEN ProcessFiles(Tail(files), new_orders,
                                   Append(log_1, Message("validation_error", uploaded_file)),
                                   calls_2)
                 ELSE ProcessFiles(Tail(files), new_orders,
                                   Append(log_1, Message("error", uploaded_file)), calls_2)

process_uploaded_pdfs(files) == ProcessFiles(files, <<>>, <<>>, <<>>)

\* ------------------------------------------------------------ layout trees

Plate1234 == <<"1", "2", "3", "4", "A", "B", "C">>
MakeHyundai == <<"H", "Y", "U", "N", "D", "A", "I">>
MakeHyundaiLower == <<"h", "y", "u", "n", "d", "a", "i">>
MakeWithLabel == <<"M", "a", "r", "c", "a", ":", " ", "H", "Y", "U", "N", "D", "A", "I">>
MakeGross == <<"G", "r", "o", "sz">>
ModelHyundaiI30 == <<"H", "Y", "U", "N", "D", "A", "I", " ", "I", "3", "0">>
ModelI30 == <<"I", "3", "0">>
ModelWithLabel == <<"M", "o", "d", "e", "l", "o", ":", " ", "H", "Y", "U", "N", "D", "A", "I", " ", "I", "3", "0">>
ModelGrossX == <<"G", "R", "O", "S", "S", " ", "X">>
Blank == <<" ">>
StreetMayor == <<"C", "a", "l", "l", "e", " ", "M", "a", "y", "o", "r", " ", "1">>
PostalMadrid == <<"2", "8", "0", "5", "0", " ", "M", "a", "d", "r", "i", "d">>
PostalCentro == <<"M", "a", "d", "r", "i", "d", " ", "C", "e", "n", "t", "r", "o">>
ProvinceMadrid == <<"M", "a", "d", "r", "i", "d">>
NameDepot == <<"D", "e", "p", "o", "t">>
PersonAna == <<"A", "n", "a">>
Phone600 == <<"6", "0", "0", "1", "2", "3", "1", "2", "3">>
CommentsText == <<"O", "b", "s", "e", "r", "v", "a", "c", "i", "o", "n", "e", "s", ":", " ", "l", "l", "a", "m", "a", "r">>
ShipmentId == <<"O", "R", "D", "-", "1">>
Filler == <<"x">>

\* Bounds of the trees: the number of tables, the rows of table 0 and the
\* rows of the two stop tables.
MaxTables == 3
MaxRows0 == 3
MaxStopRows == 7

\* A grid row of the template: the label cell, then the value cell.
PairRow(label, value) == <<Cell(PyStr(label)), Cell(PyStr(value))>>

\* The first n of rows, padded with filler rows.
FirstRows(rows, n) ==
    [i \in 1..n |-> IF i <= Len(rows) THEN rows[i] ELSE PairRow(Filler, Filler)]

Table0(plate, make, model, n) ==
    [grid |-> FirstRows(<<PairRow(LabelCarplate, plate),
                          PairRow(LabelMake, make),
                          PairRow(LabelModel, model)>>, n)]

StopTable(name_label, street, postal, n) ==
    [grid |-> FirstRows(<<PairRow(name_label, NameDepot),
                          PairRow(LabelContact, PersonAna),
                          PairRow(LabelStreet, street),
                          PairRow(LabelPostalCode, postal),
                          PairRow(LabelProvince, ProvinceMadrid),
                          PairRow(LabelPhone, Phone600),
                          PairRow(LabelComments, CommentsText)>>, n)]

TextNode(ref, text) == [self_ref |-> ref, text |-> PyStr(text)]

\* The text nodes: "#/texts/5" when id is given, "#/texts/6" when due is.
Texts(id, due) ==
    <<TextNode("#/texts/0", Filler)>>
    \o (IF id = <<>> THEN <<>> ELSE <<TextNode("#/texts/5", id)>>)
    \o (IF due = <<>> THEN <<>> ELSE <<TextNode("#/texts/6", due)>>)

Tree(texts, tables, n) == [texts |-> texts, tables |-> SubSeq(tables, 1, n)]

PlateValues == {Plate1234, <<>>, LabelCarplate}
MakeValues == {MakeHyundai, MakeHyundaiLower, MakeWithLabel, MakeGross, Blank, LabelMake}
ModelValues == {ModelHyundaiI30, ModelI30, ModelWithLabel, ModelGrossX, <<>>}
StreetValues == {StreetMayor, <<>>}
PostalValues == {PostalMadrid, PostalCentro, <<>>}
DueValues == DateTexts \cup {<<>>}

\* Trees of the template with every combination of field values.
ValueTrees ==
    {Tree(Texts(id, due),
          <<Table0(plate, make, model, 3),
            StopTable(LabelPickup, street, postal, 7),
            StopTable(LabelDelivery, StreetMayor, PostalMadrid, 7)>>, 3) :
        id \in {ShipmentId, <<>>}, due \in DueValues, plate \in PlateValues,
        make \in MakeValues, model \in ModelValues, street \in StreetValues,
        postal \in PostalValues}

\* Trees with the template's values and every shape: tables and rows missing.
ShapeTrees ==
    {Tree(Texts(ShipmentId, IsoDate),
          <<Table0(Plate1234, MakeHyundai, ModelHyundaiI30, n0),
            StopTable(LabelPickup, StreetMayor, PostalMadrid, n1),
            StopTable(LabelDelivery, StreetMayor, PostalMadrid, n2),
            Table0(Plate1234, MakeHyundai, ModelHyundaiI30, 3)>>, n) :
        n \in 0..MaxTables, n0 \in 0..MaxRows0, n1 \in 0..MaxStopRows, n2 \in 0..MaxStopRows}

Trees == ValueTrees \cup ShapeTrees

\* The document of the spec's example: plate 1234ABC, HYUNDAI, HYUNDAI I30.
GoodTree ==
    Tree(Texts(ShipmentId, IsoDate),
         <<Table0(Plate1234, MakeHyundai, ModelHyundaiI30, 3),
           StopTable(LabelPickup, StreetMayor, PostalMadrid, 7),
           StopTable(LabelDelivery, StreetMayor, PostalMadrid, 7)>>, 3)

File(name, size, readable, tree) ==
    [name |-> name, size |-> size, doc |-> [readable |-> readable, dict |-> tree]]

NoRun == [new_orders |-> <<>>, log |-> <<>>, calls |-> <<>>]
NoTree == [texts |-> <<>>, tables |-> <<>>]
NoCall == [fn |-> "none", a |-> PyNone, b |-> PyNone]

\* The values of the variables a specification does not use.
NoExtract == call = NoCall /\ result = Pending
NoBuild == extracted_dict = NoTree /\ built = Pending
NoSession ==
    /\ extracted_orders = <<>> /\ page = "PDF Orders" /\ trigger = "load"
    /\ rerun_requested = FALSE /\ uploads = <<>>

\* ------------------------------------------------------------ building one tree

\* The tree under test is uploaded next to a good document, before or after it.
InitBuild ==
    /\ extracted_dict \in Trees
    /\ built = Pending
    /\ uploaded_files \in
         {<<File("under_test.pdf", 1024, TRUE, extracted_dict), File("good.pdf", 1024, TRUE, GoodTree)>>,
          <<File("good.pdf", 1024, TRUE, GoodTree), File("under_test.pdf", 1024, TRUE, extracted_dict)>>}
    /\ run = NoRun
    /\ NoExtract /\ NoSession

CallBuild ==
    /\ built = Pending
    /\ built' = build_order_model(extracted_dict, Now)
    /\ UNCHANGED <<extractVars, extracted_dict, uploaded_files, run, sessionVars>>

CallProcess ==
    /\ run = NoRun
    /\ run' = process_uploaded_pdfs(uploaded_files)
    /\ UNCHANGED <<extractVars, buildVars, uploaded_files, sessionVars>>

NextBuild == CallBuild \/ CallProcess

SpecBuild == InitBuild /\ [][NextBuild]_vars

\* ------------------------------------------------------------ batches of files

ShipmentId2 == <<"O", "R", "D", "-", "2">>
Plate5678 == <<"5", "6", "7", "8", "X", "Y", "Z">>

FileA == File("a.pdf", 1024, TRUE, GoodTree)
FileB ==
    File("b.pdf", 2048, TRUE,
         Tree(Texts(ShipmentId2, NotADate),
              <<Table0(Plate5678, MakeWithLabel, ModelWithLabel, 3),
                StopTable(LabelPickup, StreetMayor, PostalCentro, 7),
                StopTable(LabelDelivery, StreetMayor, PostalMadrid, 7)>>, 3))
\* A document the converter cannot read.
FileCorrupt == File("corrupt.pdf", 512, FALSE, NoTree)
\* A document of another template: tables[1] and tables[2] are missing.
FileShort ==
    File("short.pdf", 1024, TRUE,
         Tree(Texts(ShipmentId, IsoDate),
              <<Table0(Plate1234, MakeHyundai, ModelHyundaiI30, 3)>>, 1))
\* A document with no street at the origin: Address rejects it.
FileInvalid ==
    File("invalid.pdf", 1024, TRUE,
         Tree(Texts(ShipmentId, IsoDate),
              <<Table0(Plate1234, MakeHyundai, ModelHyundaiI30, 3),
                StopTable(LabelPickup, <<>>, PostalMadrid, 7),
                StopTable(LabelDelivery, StreetMayor, PostalMadrid, 7)>>, 3))
\* A good document of the largest size accepted, and one a byte larger.
FileAtLimit == File("limit.pdf", MAX_FILE_SIZE_BYTES, TRUE, GoodTree)
FileOversized == File("big.pdf", MAX_FILE_SIZE_BYTES + 1, TRUE, GoodTree)

BatchFiles == {FileA, FileB, FileCorrupt, FileShort, FileInvalid, FileAtLimit, FileOversized}

\* The longest batch handed to process_uploaded_pdfs.
MaxBatchFiles == 3

InitBatch ==
    /\ uploaded_files \in UNION {[1..n -> BatchFiles] : n \in 0..MaxBatchFiles}
    /\ run = NoRun
    /\ NoExtract /\ NoBuild /\ NoSession

NextBatch == CallProcess

SpecBatch == InitBatch /\ [][NextBatch]_vars

\* ------------------------------------------------------------ the session: main()

\* Bounds of a session: the files the uploader holds at once, the orders the
\* batch may grow to, and the times one file is uploaded.
MaxFiles == 2
MaxOrders == 4
MaxUploads == 1

SessionFiles == {FileA, FileB, FileCorrupt}
SessionNames == {f.name : f \in SessionFiles}
Pages == {"PDF Orders", "HTML Orders"}

\* The lists the uploader can hold: no file twice.
FileLists ==
    {fs \in UNION {[1..n -> SessionFiles] : n \in 0..MaxFiles} :
        \A i, j \in 1..Len(fs) : i # j => fs[i] # fs[j]}

Names(fs) == {fs[i].name : i \in 1..Len(fs)}

\* A batch that is replaced by the new orders.
Extend_Replace(orders, new_orders) == new_orders

\* Lines 389-390: if new_orders: extracted_orders.extend(new_orders)
Extend(orders, new_orders) == IF new_orders # <<>> THEN orders \o new_orders ELSE orders

\* One run of the script up to display_extracted_orders (lines 373-391 and
\* 395-413): on the PDF page the files in the uploader are processed and their
\* orders appended; the HTML page leaves the batch alone.
RunMain(fs, p) ==
    /\ uploaded_files' = fs
    /\ page' = p
    /\ IF p = "PDF Orders" /\ fs # <<>>
       THEN /\ run' = process_uploaded_pdfs(fs)
            /\ extracted_orders' = Extend(extracted_orders, run'.new_orders)
       ELSE /\ run' = NoRun
            /\ extracted_orders' = extracted_orders

\* The Clear button is drawn by display_extracted_orders on the PDF page when
\* the batch is not empty (line 318).
ClearButtonShown == page = "PDF Orders" /\ extracted_orders # <<>>

Init ==
    /\ extracted_orders = <<>>
    /\ uploaded_files = <<>>
    /\ page = "PDF Orders"
    /\ trigger = "load"
    /\ rerun_requested = FALSE
    /\ uploads = [n \in SessionNames |-> 0]
    /\ run = NoRun
    /\ NoExtract /\ NoBuild

\* The operator changes the files in the uploader; the script reruns.
UploadFiles ==
    /\ ~rerun_requested
    /\ \E fs \in FileLists :
        /\ fs # uploaded_files
        /\ \A n \in Names(fs) \ Names(uploaded_files) : uploads[n] < MaxUploads
        /\ uploads' = [n \in SessionNames |->
                         IF n \in Names(fs) \ Names(uploaded_files)
                         THEN uploads[n] + 1 ELSE uploads[n]]
        /\ RunMain(fs, page)
    /\ Len(extracted_orders') <= MaxOrders
    /\ trigger' = "upload"
    /\ rerun_requested' = FALSE
    /\ UNCHANGED <<extractVars, buildVars>>

\* The operator selects the other page; its uploader is another widget under
\* the same key, which keeps the files or starts empty.
SelectPage ==
    /\ ~rerun_requested
    /\ \E p \in Pages \ {page}, fs \in {uploaded_files, <<>>} : RunMain(fs, p)
    /\ Len(extracted_orders') <= MaxOrders
    /\ trigger' = "page"
    /\ rerun_requested' = FALSE
    /\ UNCHANGED <<extractVars, buildVars, uploads>>

\* Any other event that reruns the script, such as an edit in the JSON viewer.
Rerun ==
    /\ ~rerun_requested
    /\ RunMain(uploaded_files, page)
    /\ Len(extracted_orders') <= MaxOrders
    /\ trigger' = "widget"
    /\ rerun_requested' = FALSE
    /\ UNCHANGED <<extractVars, buildVars, uploads>>

\* The operator clicks "Clear Extracted Orders": the script reruns with the
\* button pressed, processes the uploader's files again, and then
\* display_extracted_orders empties the batch and calls st.rerun() (338-341).
ClickClear ==
    /\ ~rerun_requested
    /\ ClearButtonShown
    /\ uploaded_files' = uploaded_files
    /\ page' = page
    /\ run' = IF uploaded_files # <<>> THEN process_uploaded_pdfs(uploaded_files) ELSE NoRun
    /\ extracted_orders' = <<>>
    /\ trigger' = "clear"
    /\ rerun_requested' = TRUE
    /\ UNCHANGED <<extractVars, buildVars, uploads>>

\* The run that st.rerun() starts.
RerunAfterClear ==
    /\ rerun_requested
    /\ RunMain(uploaded_files, page)
    /\ trigger' = "rerun"
    /\ rerun_requested' = FALSE
    /\ UNCHANGED <<extractVars, buildVars, uploads>>

Next ==
    \/ UploadFiles
    \/ SelectPage
    \/ Rerun
    \/ ClickClear
    \/ RerunAfterClear

Spec == Init /\ [][Next]_vars

\* ------------------------------------------------------------ extractor calls

\* Bounds of the inputs the extractors are called on.
MaxWordLen == 6
MaxLabelLen == 2
MaxTextLen == 3
MaxCellLen == 2
MaxRowLen == 2
MaxStart == 1

StringsUpTo(alphabet, n) == UNION {[1..k -> alphabet] : k \in 0..n}


WordTexts == {PyStr(s) : s \in StringsUpTo({"1", " ", "a"}, MaxWordLen)} \cup {PyNone, PyInt}
PrefixChars == {"a", "A", " ", "S", "sz"}
PrefixLabels == {PyStr(s) : s \in StringsUpTo(PrefixChars, MaxLabelLen)} \cup {PyNone, PyInt}
PrefixTexts == {PyStr(s) : s \in StringsUpTo(PrefixChars, MaxTextLen)} \cup {PyNone, PyInt}
CellTexts == {PyStr(s) : s \in StringsUpTo({" ", "a"}, MaxCellLen)} \cup {PyNone, PyInt}
Cells == {Cell(x) : x \in CellTexts} \cup {CellNoText, NonDict}
Rows == {PyList(r) : r \in StringsUpTo(Cells, MaxRowLen)} \cup {PyNone, PyInt}
ExcludeValues == {PyStr(<<"a">>), PyStr(<<>>), PyNone}
DateValues == {PyStr(s) : s \in DateTexts} \cup {PyStr(<<>>), PyNone, PyInt}

\* One call of one extractor, on any of its inputs.
InitExtract ==
    /\ \/ \E x \in WordTexts : call = [fn |-> "get_first_word", a |-> x, b |-> PyNone]
       \/ \E x \in PrefixLabels, y \in PrefixTexts :
            call = [fn |-> "remove_substring_if_found", a |-> x, b |-> y]
       \/ \E r \in Rows, x \in ExcludeValues :
            call = [fn |-> "get_first_non_matching_value", a |-> r, b |-> x]
       \/ \E r \in Rows, i \in 0..MaxStart :
            call = [fn |-> "concatenate_text_from_index", a |-> r, b |-> [t |-> "int", n |-> i]]
       \/ \E x \in DateValues : call = [fn |-> "format_date", a |-> x, b |-> PyNone]
    /\ result = Pending
    /\ NoBuild /\ uploaded_files = <<>> /\ run = NoRun /\ NoSession

CallGetFirstWord ==
    /\ call.fn = "get_first_word" /\ result = Pending
    /\ result' = get_first_word(call.a)
    /\ UNCHANGED <<call, buildVars, uploaded_files, run, sessionVars>>

CallRemoveSubstring ==
    /\ call.fn = "remove_substring_if_found" /\ result = Pending
    /\ result' = remove_substring_if_found(call.a, call.b)
    /\ UNCHANGED <<call, buildVars, uploaded_files, run, sessionVars>>

CallFirstNonMatching ==
    /\ call.fn = "get_first_non_matching_value" /\ result = Pending
    /\ result' = get_first_non_matching_value(call.a, call.b)
    /\ UNCHANGED <<call, buildVars, uploaded_files, run, sessionVars>>

CallConcatenate ==
    /\ call.fn = "concatenate_text_from_index" /\ result = Pending
    /\ result' = concatenate_text_from_index(call.a, call.b.n)
    /\ UNCHANGED <<call, buildVars, uploaded_files, run, sessionVars>>

CallFormatDate ==
    /\ call.fn = "format_date" /\ result = Pending
    /\ result' = format_date(call.a)
    /\ UNCHANGED <<call, buildVars, uploaded_files, run, sessionVars>>

NextExtract ==
    \/ CallGetFirstWord
    \/ CallRemoveSubstring
    \/ CallFirstNonMatching
    \/ CallConcatenate
    \/ CallFormatDate

SpecExtract == InitExtract /\ [][NextExtract]_vars

\* ------------------------------------------------------------ properties of the extractors

Returned == result # Pending

\* A text with no character other than whitespace.
IsBlank(s) == \A k \in 1..Len(s) : IsSpace(s[k])

\* A cell that get_first_non_matching_value may return: its text is a string
\* that is not empty after trimming and the cell is not the excluded label.
Qualifies(c, L) == c.kind = "dict" /\ IsStr(c.text) /\ ~IsBlank(c.text.v) /\ c.text # L

C6_ExtractorsTotal == ~IsRaised(result)

\* Some prefix of m equals s when case is ignored; k is its length.
IsPrefixIgnoringCase(m, s, k) == k <= Len(m) /\ Upper(SubSeq(m, 1, k)) = Upper(s)

\* C7: remove_substring_if_found(label, text), for a label and a text that are
\* strings or None: the empty string for a None text; otherwise, when the
\* trimmed text starts with the trimmed label ignoring case, the remainder
\* after that prefix with its leading whitespace removed, and else the trimmed
\* text. A None label counts as the empty label.
C7_StripLabelPrefix ==
    (/\ call.fn = "remove_substring_if_found" /\ Returned
     /\ call.a.t \in {"str", "none"} /\ call.b.t \in {"str", "none"}) =>
        IF call.b.t = "none" THEN result = PyStr(<<>>)
        ELSE LET m == Strip(call.b.v)
                 s == IF call.a.t = "none" THEN <<>> ELSE Strip(call.a.v)
             IN IF \E k \in 0..Len(m) : IsPrefixIgnoringCase(m, s, k)
                THEN \E k \in 0..Len(m) :
                        /\ IsPrefixIgnoringCase(m, s, k)
                        /\ result = PyStr(LStrip(SliceFrom(m, k)))
                ELSE result = PyStr(m)

\* s[i..j] is the first whitespace-delimited token of s.
IsFirstToken(s, i, j) ==
    /\ 1 <= i /\ i <= j /\ j <= Len(s)
    /\ \A k \in 1..(i - 1) : IsSpace(s[k])
    /\ \A k \in i..j : ~IsSpace(s[k])
    /\ (j < Len(s) => IsSpace(s[j + 1]))

FourOrFiveDigits(w) == Len(w) \in {4, 5} /\ \A k \in 1..Len(w) : IsDigit(w[k])

\* The result the claim gives for a text with a first token.
FirstWordExpected(text) ==
    \E i, j \in 1..Len(text.v) :
        /\ IsFirstToken(text.v, i, j)
        /\ LET w == SubSeq(text.v, i, j) IN
           result = IF FourOrFiveDigits(w) THEN PyStr(w) ELSE text

\* C8 as stated: for every text, the first token when it is 4 or 5 digits,
\* and otherwise the original text unchanged.
C8_FirstWordEveryText ==
    (call.fn = "get_first_word" /\ Returned) =>
        IF IsStr(call.a) /\ ~IsBlank(call.a.v) THEN FirstWordExpected(call.a)
        ELSE result = call.a

\* C8, amended: for a text that is a string with a non-whitespace character,
\* the first token when it is 4 or 5 digits and otherwise the text unchanged;
\* for None, a non-string, the empty or a whitespace-only text, the empty string.
C8_FirstWord ==
    (call.fn = "get_first_word" /\ Returned) =>
        IF IsStr(call.a) /\ ~IsBlank(call.a.v) THEN FirstWordExpected(call.a)
        ELSE result = PyStr(<<>>)

\* A postal code followed by more text: the code alone is returned.
C8_Witness ==
    /\ call.fn = "get_first_word" /\ Returned
    /\ IsStr(call.a) /\ IsStr(result)
    /\ FourOrFiveDigits(result.v)
    /\ Len(call.a.v) > Len(result.v)

\* ------------------------------------------------------------ properties of build_order_model

\* The tree lacks a table or a row that build_order_model reads.
TooShort(tree) ==
    \/ Len(tree.tables) < 3
    \/ Len(tree.tables[1].grid) < 3
    \/ Len(tree.tables[2].grid) < 7
    \/ Len(tree.tables[3].grid) < 7

Messages(kind, name) == {i \in 1..Len(run.log) : run.log[i] = [kind |-> kind, name |-> name]}

Reported(name) == Messages("error", name) \cup Messages("validation_error", name)

\* C2: build_order_model raises on a tree with fewer than three tables, fewer
\* than 3 rows in tables[0].grid or fewer than 7 in tables[1].grid or
\* tables[2].grid; uploaded next to a good document, such a file is reported
\* as failed and gives no order, and the good document still gives its order.
C2_ShortTreeFails ==
    TooShort(extracted_dict) =>
        /\ built # Pending => IsRaised(built)
        /\ run # NoRun =>
            /\ Reported("under_test.pdf") # {}
            /\ Reported("good.pdf") = {}
            /\ Len(run.new_orders) = 1
            /\ run.new_orders[1].stops[1].vehicles[1].license_plate = PyStr(Plate1234)
            /\ run.new_orders[1].header.shipment_id = PyStr(ShipmentId)

\* A tree whose destination table has six rows, uploaded before the good
\* document: the build raised and the batch holds the good order alone.
C2_Witness ==
    /\ Len(extracted_dict.tables) = 3
    /\ Len(extracted_dict.tables[3].grid) = 6
    /\ IsRaised(built)
    /\ uploaded_files[1].name = "under_test.pdf"
    /\ Len(run.new_orders) = 1
    /\ Reported("under_test.pdf") # {}

\* C9: an order that build_order_model returns has two stops numbered 1 and 2,
\* number_of_stops equal to their number, one vehicle per stop, the same
\* plate, make and model in both, Collection at stop 1 and Delivery at stop 2.
C9_OrderShape ==
    built.t = "order" =>
        LET o == built.order IN
        /\ Len(o.stops) = 2
        /\ o.stops[1].stop_number = 1 /\ o.stops[2].stop_number = 2
        /\ o.header.number_of_stops = Len(o.stops)
        /\ Len(o.stops[1].vehicles) = 1 /\ Len(o.stops[2].vehicles) = 1
        /\ LET v1 == o.stops[1].vehicles[1]
               v2 == o.stops[2].vehicles[1]
           IN /\ v1.license_plate = v2.license_plate
              /\ v1.make = v2.make
              /\ v1.model = v2.model
              /\ v1.activity = ActivityCollection
              /\ v2.activity = ActivityDelivery

\* An order built from a tree other than the template's example.
C9_Witness ==
    /\ built.t = "order"
    /\ extracted_dict # GoodTree
    /\ built.order.stops[2].vehicles[1].activity = ActivityDelivery
    /\ built.order.stops[1].vehicles[1].make = PyStr(MakeHyundai)

\* The value cell of row i (0-based) of tables[0].grid.
ValueOf(tree, i) == tree.tables[1].grid[i + 1][2].text.v

\* The rows 0-2 of tables[0].grid are [label, value] pairs of the three labels.
IsLabelledTable0(tree) ==
    /\ Len(tree.tables) >= 1 /\ Len(tree.tables[1].grid) >= 3
    /\ \A i \in 1..3 :
         /\ Len(tree.tables[1].grid[i]) = 2
         /\ tree.tables[1].grid[i][1] = Cell(PyStr(<<LabelCarplate, LabelMake, LabelModel>>[i]))
         /\ tree.tables[1].grid[i][2].kind = "dict"
         /\ IsStr(tree.tables[1].grid[i][2].text)

\* A value cell that yields a value: not blank and not the label itself.
Recovered(value, label) == ~IsBlank(value) /\ value # label

\* text with the prefix label removed, case ignored, as C7 states it: the
\* results that statement allows.
StrippedOf(label, text) ==
    LET m == Strip(text)
        s == Strip(label)
    IN IF \E k \in 0..Len(m) : IsPrefixIgnoringCase(m, s, k)
       THEN {LStrip(SliceFrom(m, k)) : k \in {j \in 0..Len(m) : IsPrefixIgnoringCase(m, s, j)}}
       ELSE {m}

\* C10: from [label, value] rows, license_plate is the plate value, make the
\* make value with "Marca:" stripped, model the model value with "Modelo:"
\* stripped and then the extracted make stripped as a prefix; a plate or make
\* that cannot be recovered is "UNKNOWN".
C10_VehicleFields ==
    (built.t = "order" /\ IsLabelledTable0(extracted_dict)) =>
        LET v == built.order.stops[1].vehicles[1]
            plate == ValueOf(extracted_dict, 0)
            makes == IF Recovered(ValueOf(extracted_dict, 1), LabelMake)
                     THEN StrippedOf(LabelMake, ValueOf(extracted_dict, 1)) ELSE {<<>>}
            models == IF Recovered(ValueOf(extracted_dict, 2), LabelModel)
                      THEN StrippedOf(LabelModel, ValueOf(extracted_dict, 2)) ELSE {<<>>}
        IN /\ v.license_plate = IF Recovered(plate, LabelCarplate) THEN PyStr(plate)
                                ELSE PyStr(UNKNOWN)
           /\ \E make \in makes :
                /\ v.make = IF make = <<>> THEN PyStr(UNKNOWN) ELSE PyStr(make)
                /\ \E model \in models : v.model \in {PyStr(x) : x \in StrippedOf(make, model)}

\* ------------------------------------------------------------ properties of the batch and the session

\* The outcome each file of BatchFiles is made to have.
Succeeds(f) == f \in {FileA, FileB, FileAtLimit}
FailsToParse(f) == f = FileCorrupt
FailsToExtract(f) == f = FileShort
FailsToValidate(f) == f = FileInvalid

\* The shipment id in a file's document.
IdOf(f) == TextByRef(f.doc.dict.texts, "#/texts/5")

\* The places of the batch that hold the file called name and satisfy Test.
Places(name, Test(_)) ==
    {i \in 1..Len(uploaded_files) : uploaded_files[i].name = name /\ Test(uploaded_files[i])}

NotOversized(f) == f.size <= MAX_FILE_SIZE_BYTES
FailsOtherwise(f) == FailsToParse(f) \/ FailsToExtract(f)

\* C1: whatever the files and their outcomes, every file that is not oversized
\* is processed, each failure is reported for its file, and new_orders holds
\* one order per file that succeeded, in upload order, and no other.
C1_FailureIsolated ==
    run # NoRun =>
        LET ok == SelectSeq(uploaded_files, Succeeds) IN
        /\ Len(run.new_orders) = Len(ok)
        /\ \A i \in 1..Len(ok) : run.new_orders[i].header.shipment_id = IdOf(ok[i])
        /\ \A f \in BatchFiles :
            /\ Cardinality(Messages("extracting", f.name))
                 = Cardinality(Places(f.name, NotOversized))
            /\ Cardinality(Messages("error", f.name))
                 = Cardinality(Places(f.name, FailsOtherwise))
            /\ Cardinality(Messages("validation_error", f.name))
                 = Cardinality(Places(f.name, FailsToValidate))

\* An unreadable file, then a file that fails validation, then a good one:
\* both failures are reported and the good file's order is returned.
C1_Witness ==
    /\ uploaded_files = <<FileCorrupt, FileInvalid, FileB>>
    /\ Len(run.new_orders) = 1
    /\ run.new_orders[1].header.shipment_id = PyStr(ShipmentId2)
    /\ Messages("error", "corrupt.pdf") # {}
    /\ Messages("validation_error", "invalid.pdf") # {}

\* The orders of the session's batch that come from the file called name.
OrdersOf(name) ==
    {i \in 1..Len(extracted_orders) :
        \E f \in SessionFiles :
            f.name = name /\ f.doc.readable /\ extracted_orders[i].header.shipment_id = IdOf(f)}

\* C3: the batch holds at most one order per upload of a document, and none
\* of a document that failed.
C3_OncePerDocument ==
    \A f \in SessionFiles :
        /\ Cardinality(OrdersOf(f.name)) <= uploads[f.name]
        /\ ~f.doc.readable => OrdersOf(f.name) = {}

IsPrefix(a, b) == Len(a) <= Len(b) /\ SubSeq(b, 1, Len(a)) = a

RECURSIVE NamesInvoked(_, _)
NamesInvoked(op, calls) ==
    IF calls = <<>> THEN <<>>
    ELSE IF Head(calls).op = op THEN <<Head(calls).name>> \o NamesInvoked(op, Tail(calls))
    ELSE NamesInvoked(op, Tail(calls))

RECURSIVE NamesOf(_)
NamesOf(files) == IF files = <<>> THEN <<>> ELSE <<Head(files).name>> \o NamesOf(Tail(files))

Readable(f) == f.doc.readable
Oversized(f) == ~NotOversized(f)
Accepted(f) == NotOversized(f) /\ Readable(f)

\* The file's document is one build_order_model returns an order for.
Builds(f) == Readable(f) /\ ~IsRaised(build_order_model(f.doc.dict, Now))
Yields(f) == NotOversized(f) /\ Builds(f)

\* C11: in a batch, no file larger than 25 * 1024 * 1024 bytes is staged,
\* parsed or built; every order returned comes from a build of a file within
\* the ceiling; and every file within the ceiling is staged and parsed, in
\* upload order, whether or not an oversized file precedes it.
C11_OversizedSkipped ==
    run # NoRun =>
        /\ \A i \in 1..Len(run.calls) : run.calls[i].size <= 25 * 1024 * 1024
        /\ \A f \in BatchFiles :
             f.size > 25 * 1024 * 1024 =>
                /\ \A i \in 1..Len(run.calls) : run.calls[i].name # f.name
                /\ Cardinality(Messages("skipped", f.name))
                     = Cardinality(Places(f.name, Oversized))
        /\ Len(run.new_orders) <= Len(NamesInvoked("build", run.calls))
        /\ LET yielding == SelectSeq(uploaded_files, Yields) IN
             /\ Len(run.new_orders) = Len(yielding)
             /\ \A i \in 1..Len(yielding) :
                  run.new_orders[i].header.shipment_id = IdOf(yielding[i])
        /\ NamesInvoked("stage", run.calls) = NamesOf(SelectSeq(uploaded_files, NotOversized))
        /\ NamesInvoked("parse", run.calls) = NamesOf(SelectSeq(uploaded_files, NotOversized))
        /\ NamesInvoked("build", run.calls) = NamesOf(SelectSeq(uploaded_files, Accepted))

\* An oversized file between two good ones: it is skipped with a message and
\* never staged, and the file after it is processed and yields its order.
C11_Witness ==
    /\ uploaded_files = <<FileA, FileOversized, FileB>>
    /\ run.log = <<Message("extracting", FileA), Message("skipped", FileOversized),
                   Message("extracting", FileB)>>
    /\ NamesInvoked("build", run.calls) = <<"a.pdf", "b.pdf">>
    /\ Len(run.new_orders) = 2
    /\ run.new_orders[2].header.shipment_id = PyStr(ShipmentId2)

====
